---------------------------- MODULE Spec2Model ----------------------------
(***************************************************************************)
(* Model of the path-data codec of ukko-svg (src/src/elements/path.rs):    *)
(* PathCommand::from_str / Display, PathShape::from_str / Display.         *)
(*                                                                         *)
(* A Rust &str is a sequence of characters, each character a one-letter    *)
(* TLA+ string.  An f32 is modelled by the exact decimal it was parsed     *)
(* from (sign, mantissa m, exponent e: m * 10^e, m without trailing        *)
(* zeros), or NaN, or an infinity.  That is what f32 parsing followed by   *)
(* f32 Display computes for every literal of at most six significant       *)
(* digits and a small exponent, which is all the model draws.              *)
(***************************************************************************)
EXTENDS Integers, Sequences, FiniteSets, TLC

VARIABLES
    toks,      \* the tokens the caller has written so far, the letter first
    edits,     \* how many of them are not the canonical ones
    str,       \* the text handed to PathCommand::from_str
    pc,        \* position of the command pipeline
    parsed,    \* UkkoResult<PathCommand> of PathCommand::from_str(str)
    text,      \* parsed.to_string()
    reparsed,  \* UkkoResult<PathCommand> of PathCommand::from_str(text)
    chunks,    \* how many command texts the caller has put into shapeStr
    shapeStr,  \* the text handed to PathShape::from_str
    spc,       \* position of the shape pipeline
    shape,     \* UkkoResult<PathShape> of PathShape::from_str(shapeStr)
    stdout,    \* what the process has printed: one entry per println!
    shapeText, \* shape.to_string()
    path,      \* the Path of shape.to_path()
    node,      \* the element of path.to_xml_node()
    built,     \* a PathCommand the caller has built without parsing
    bpc,       \* position of the formatting of built
    builtText, \* built.to_string()
    given,     \* the Vec<PathCommand> the caller builds with the constructors
    made,      \* the PathShape of PathShape::new() and with_commands
    mpc,       \* position of the construction pipeline
    madeText,  \* made.to_string()
    remade,    \* UkkoResult<PathShape> of PathShape::from_str(madeText)
    attr,      \* made.key() and made.value()
    elem,      \* the Path of made.to_path(), after the with_attribute calls
    log,       \* the with_attribute calls made on elem: key and value of each
    attrs,     \* the map of the last elem.attributes()
    kv,        \* the pair handed to PathShape::from_key_value
    fromKv     \* UkkoResult<PathShape> of PathShape::from_key_value(kv)

commandVars == <<toks, edits, str, pc, parsed, text, reparsed>>
shapeVars == <<chunks, shapeStr, spc, shape, stdout, shapeText, path, node>>
madeVars == <<given, made, mpc, madeText, remade, attr>>
pathVars == <<elem, log, attrs, kv, fromKv>>
buildVars == <<built, bpc, builtText, madeVars, pathVars>>
vars == <<commandVars, shapeVars, buildVars>>

---------------------------------------------------------------------------
(* Characters *)

Lower == <<"a","b","c","d","e","f","g","h","i","j","k","l","m",
           "n","o","p","q","r","s","t","u","v","w","x","y","z">>
Upper == <<"A","B","C","D","E","F","G","H","I","J","K","L","M",
           "N","O","P","Q","R","S","T","U","V","W","X","Y","Z">>
Range(f) == {f[i] : i \in DOMAIN f}
LowerSet == Range(Lower)
UpperSet == Range(Upper)
\* one non-ASCII letter: alphabetic, lowercase, two bytes in UTF-8
NonAscii == {"U+00E9"}
DigitSeq == <<"0","1","2","3","4","5","6","7","8","9">>
DigitSet == Range(DigitSeq)

IndexOf(c, seq) == CHOOSE i \in DOMAIN seq : seq[i] = c

\* char::is_whitespace
IsWhitespace(c) == c \in {" ", "\n", "\t"}
\* char::is_alphabetic
IsAlphabetic(c) == c \in LowerSet \cup UpperSet \cup NonAscii
\* char::is_lowercase
IsLowercase(c) == c \in LowerSet \cup NonAscii
\* char::to_ascii_uppercase / to_ascii_lowercase: only ASCII letters change
ToAsciiUppercase(c) == IF c \in LowerSet THEN Upper[IndexOf(c, Lower)] ELSE c
ToAsciiLowercase(c) == IF c \in UpperSet THEN Lower[IndexOf(c, Upper)] ELSE c
\* number of UTF-8 bytes of a character, and str::len
CharLen(c) == IF c \in NonAscii THEN 2 ELSE 1
RECURSIVE ByteLen(_)
ByteLen(s) == IF s = <<>> THEN 0 ELSE CharLen(Head(s)) + ByteLen(Tail(s))

---------------------------------------------------------------------------
(* str::trim, str::split_whitespace, str::split(',') *)

RECURSIVE TrimStart(_)
TrimStart(s) ==
    IF s # <<>> /\ IsWhitespace(Head(s)) THEN TrimStart(Tail(s)) ELSE s
RECURSIVE TrimEnd(_)
TrimEnd(s) ==
    IF s # <<>> /\ IsWhitespace(s[Len(s)])
    THEN TrimEnd(SubSeq(s, 1, Len(s) - 1)) ELSE s
Trim(s) == TrimEnd(TrimStart(s))

\* the pieces of s between characters satisfying the test, empty pieces kept
\* (str::split): cur is the piece being read
RECURSIVE SplitOn(_, _, _)
SplitOn(s, seps, cur) ==
    IF s = <<>> THEN <<cur>>
    ELSE IF Head(s) \in seps THEN <<cur>> \o SplitOn(Tail(s), seps, <<>>)
    ELSE SplitOn(Tail(s), seps, Append(cur, Head(s)))

\* str::split_whitespace: the non-empty pieces between whitespace
SplitWhitespace(s) ==
    SelectSeq(SplitOn(s, {" ", "\n", "\t"}, <<>>), LAMBDA p : p # <<>>)

SplitComma(s) == SplitOn(s, {","}, <<>>)

---------------------------------------------------------------------------
(* UkkoError, UkkoResult (src/src/lib.rs) *)

NoErr == [variant |-> "none", msg |-> ""]
\* UkkoError::parse(msg), also what From<ParseFloatError> and
\* From<ParseIntError> build from the conversion error's message
ParseError(m) == [variant |-> "ParseError", msg |-> m]
\* UkkoError::TODO
TODO == [variant |-> "TODO", msg |-> ""]
\* not a value of UkkoError: the call does not return, the thread panics
Panic(m) == [variant |-> "panic", msg |-> m]
Ok(v) == [ok |-> TRUE, val |-> v, err |-> NoErr]
Err(e, none) == [ok |-> FALSE, val |-> none, err |-> e]

---------------------------------------------------------------------------
(* f32: str::parse::<f32>, Display, PartialEq *)

Num(neg, m, e) == [kind |-> "num", neg |-> neg, m |-> m, e |-> e]
NaN(neg) == [kind |-> "nan", neg |-> neg, m |-> 0, e |-> 0]
Inf(neg) == [kind |-> "inf", neg |-> neg, m |-> 0, e |-> 0]
NoF32 == [kind |-> "none", neg |-> FALSE, m |-> 0, e |-> 0]
Zero == Num(FALSE, 0, 0)

RECURSIVE Normalize(_, _, _)
Normalize(neg, m, e) ==
    IF m = 0 THEN Num(neg, 0, 0)
    ELSE IF m % 10 = 0 THEN Normalize(neg, m \div 10, e + 1)
    ELSE Num(neg, m, e)

AllDigits(s) == \A i \in DOMAIN s : s[i] \in DigitSet
DigitVal(c) == IndexOf(c, DigitSeq) - 1
RECURSIVE DecVal(_)
DecVal(s) ==
    IF s = <<>> THEN 0
    ELSE 10 * DecVal(SubSeq(s, 1, Len(s) - 1)) + DigitVal(s[Len(s)])

LowerStr(s) == [i \in DOMAIN s |-> ToAsciiLowercase(s[i])]

FloatEmpty == ParseError("cannot parse float from empty string")
FloatInvalid == ParseError("invalid float literal")

\* position of the first character of s that is in set, Len(s) + 1 if none
RECURSIVE FindFirst(_, _)
FindFirst(s, set) ==
    IF s = <<>> \/ Head(s) \in set THEN 1 ELSE 1 + FindFirst(Tail(s), set)
Before(s, set) == SubSeq(s, 1, FindFirst(s, set) - 1)
After(s, set) == SubSeq(s, FindFirst(s, set) + 1, Len(s))
Unsigned(s) == IF s # <<>> /\ Head(s) \in {"+", "-"} THEN Tail(s) ELSE s

\* digits [. digits], one digit at least
IsMantissa(m) ==
    /\ AllDigits(Before(m, {"."})) /\ AllDigits(After(m, {"."}))
    /\ Len(Before(m, {"."})) + Len(After(m, {"."})) > 0
\* nothing, or (e|E) [+|-] digits with one digit at least
IsExponent(x) ==
    x = <<>> \/ (Unsigned(Tail(x)) # <<>> /\ AllDigits(Unsigned(Tail(x))))
ExponentVal(x) ==
    IF x = <<>> THEN 0
    ELSE IF Head(Tail(x)) = "-" THEN 0 - DecVal(Unsigned(Tail(x)))
    ELSE DecVal(Unsigned(Tail(x)))
MantissaVal(neg, m, exp) ==
    Normalize(neg, DecVal(Before(m, {"."}) \o After(m, {"."})),
              exp - Len(After(m, {"."})))

\* the literal after its sign, cut before its exponent letter into mantissa
\* and exponent: a decimal number, or inf, infinity, nan in any letter case
ParseParts(neg, s, mantissa, exponent) ==
    IF IsMantissa(mantissa) /\ IsExponent(exponent)
    THEN Ok(MantissaVal(neg, mantissa, ExponentVal(exponent)))
    ELSE IF LowerStr(s) = <<"n","a","n">> THEN Ok(NaN(neg))
    ELSE IF LowerStr(s) \in {<<"i","n","f">>, <<"i","n","f","i","n","i","t","y">>}
         THEN Ok(Inf(neg))
    ELSE Err(FloatInvalid, NoF32)

ParseUnsigned(neg, s) ==
    ParseParts(neg, s, Before(s, {"e", "E"}),
               SubSeq(s, FindFirst(s, {"e", "E"}), Len(s)))

\* <f32 as FromStr>::from_str: no trimming, an optional sign first
F32FromStr(s) ==
    IF s = <<>> THEN Err(FloatEmpty, NoF32)
    ELSE IF Unsigned(s) = <<>> THEN Err(FloatInvalid, NoF32)
    ELSE ParseUnsigned(Head(s) = "-", Unsigned(s))

RECURSIVE Digits(_)
Digits(n) ==
    IF n < 10 THEN <<DigitSeq[n + 1]>>
    ELSE Append(Digits(n \div 10), DigitSeq[(n % 10) + 1])
Zeros(n) == [i \in 1..n |-> "0"]

\* <f32 as Display>::fmt: shortest decimal, never an exponent, no ".0"
F32ToString(v) ==
    LET sign == IF v.neg THEN <<"-">> ELSE <<>>
        d == Digits(v.m)
        k == 0 - v.e
    IN  IF v.kind = "nan" THEN <<"N","a","N">>
        ELSE IF v.kind = "inf" THEN sign \o <<"i","n","f">>
        ELSE IF v.e >= 0 THEN sign \o d \o Zeros(v.e)
        ELSE IF Len(d) > k
             THEN sign \o SubSeq(d, 1, Len(d) - k) \o <<".">>
                       \o SubSeq(d, Len(d) - k + 1, Len(d))
        ELSE sign \o <<"0", ".">> \o Zeros(k - Len(d)) \o d

\* <f32 as PartialEq>::eq: NaN equals nothing, -0 equals 0
F32Eq(a, b) ==
    /\ a.kind # "nan" /\ b.kind # "nan"
    /\ \/ a = b
       \/ a.kind = "num" /\ b.kind = "num" /\ a.m = 0 /\ b.m = 0

---------------------------------------------------------------------------
(* i8: str::parse::<i8> *)

I8_MIN == -128
I8_MAX == 127
IntEmpty == ParseError("cannot parse integer from empty string")
IntInvalidDigit == ParseError("invalid digit found in string")
IntPosOverflow == ParseError("number too large to fit in target type")
IntNegOverflow == ParseError("number too small to fit in target type")

\* the value wraps around at the ends of the i8 range instead of failing
RECURSIVE I8AccumulateWrapping(_, _, _)
I8AccumulateWrapping(neg, acc, s) ==
    IF s = <<>> THEN Ok(((acc + 128) % 256) - 128)
    ELSE IF Head(s) \notin DigitSet THEN Err(IntInvalidDigit, 0)
    ELSE I8AccumulateWrapping(neg, IF neg THEN 10 * acc - DigitVal(Head(s))
                                   ELSE 10 * acc + DigitVal(Head(s)), Tail(s))

\* the digits are accumulated left to right in an i8; the first digit that is
\* no digit, or that takes the value out of the i8 range, ends the parse
RECURSIVE I8Accumulate(_, _, _)
I8Accumulate(neg, acc, s) ==
    IF s = <<>> THEN Ok(acc)
    ELSE IF Head(s) \notin DigitSet THEN Err(IntInvalidDigit, 0)
    ELSE LET next == IF neg THEN 10 * acc - DigitVal(Head(s))
                     ELSE 10 * acc + DigitVal(Head(s))
         IN  IF next > I8_MAX THEN Err(IntPosOverflow, 0)
             ELSE IF next < I8_MIN THEN Err(IntNegOverflow, 0)
             ELSE I8Accumulate(neg, next, Tail(s))

I8FromStr(s) ==
    IF s = <<>> THEN Err(IntEmpty, 0)
    ELSE IF Unsigned(s) = <<>> THEN Err(IntInvalidDigit, 0)
    ELSE I8Accumulate(Head(s) = "-", 0, Unsigned(s))

---------------------------------------------------------------------------
(* PathCommandKind, PathCommand and its constructors *)

\* a PathCommandKind: the variant and its payload (points, scalars, flags)
Kind(name, pts, nums, flags) ==
    [name |-> name, pts |-> pts, nums |-> nums, flags |-> flags]
PathCommand(relative, movement, command) ==
    [relative |-> relative, movement |-> movement, command |-> command]
NoCommand == PathCommand(FALSE, <<NoF32, NoF32>>, Kind("none", <<>>, <<>>, <<>>))

as_char(command) ==
    CASE command.name = "MoveTo" -> "M"
      [] command.name = "LineTo" -> "L"
      [] command.name = "HorizontalLineTo" -> "H"
      [] command.name = "VerticalLineTo" -> "V"
      [] command.name = "CubicBezierCurve" -> "C"
      [] command.name = "CubicBezierCurveSmooth" -> "S"
      [] command.name = "QuadraticBezierCurve" -> "Q"
      [] command.name = "QuadraticBezierCurveSmooth" -> "T"
      [] command.name = "EllipticalArcCurve" -> "A"
      [] command.name = "ClosePath" -> "Z"

relative_unset(self) == self
relative_toggle(self) == [self EXCEPT !.relative = ~self.relative]
relative(self) == [self EXCEPT !.relative = TRUE]

move_to(movement) ==
    PathCommand(FALSE, movement, Kind("MoveTo", <<>>, <<>>, <<>>))
line_to(movement) ==
    PathCommand(FALSE, movement, Kind("LineTo", <<>>, <<>>, <<>>))
horizontal_line_to_y(to) ==
    PathCommand(FALSE, <<Zero, to>>, Kind("HorizontalLineTo", <<>>, <<>>, <<>>))
horizontal_line_to(to) ==
    PathCommand(FALSE, <<to, Zero>>, Kind("HorizontalLineTo", <<>>, <<>>, <<>>))
vertical_line_to(to) ==
    PathCommand(FALSE, <<Zero, to>>, Kind("VerticalLineTo", <<>>, <<>>, <<>>))
cubic_bezier_curve_swapped(movement, control_start, control_end) ==
    PathCommand(FALSE, control_end,
        Kind("CubicBezierCurve", <<control_start, movement>>, <<>>, <<>>))
cubic_bezier_curve(movement, control_start, control_end) ==
    PathCommand(FALSE, movement,
        Kind("CubicBezierCurve", <<control_start, control_end>>, <<>>, <<>>))
cubic_bezier_curve_smooth(movement, control) ==
    PathCommand(FALSE, movement,
        Kind("CubicBezierCurveSmooth", <<control>>, <<>>, <<>>))
quadratic_bezier_curve(movement, control) ==
    PathCommand(FALSE, movement,
        Kind("QuadraticBezierCurve", <<control>>, <<>>, <<>>))
quadratic_bezier_curve_smooth(movement) ==
    PathCommand(FALSE, movement,
        Kind("QuadraticBezierCurveSmooth", <<>>, <<>>, <<>>))
elliptical_arc_curve(movement, rx, ry, angle, large_arc_flag, sweep_flag) ==
    PathCommand(FALSE, movement,
        Kind("EllipticalArcCurve", <<>>, <<rx, ry, angle>>,
             <<large_arc_flag, sweep_flag>>))
close == PathCommand(FALSE, <<Zero, Zero>>, Kind("ClosePath", <<>>, <<>>, <<>>))

\* #[derive(PartialEq)] on (f32, f32), PathCommandKind and PathCommand
TupleEq(a, b) == F32Eq(a[1], b[1]) /\ F32Eq(a[2], b[2])
KindEq(a, b) ==
    /\ a.name = b.name
    /\ \A i \in DOMAIN a.pts : TupleEq(a.pts[i], b.pts[i])
    /\ \A i \in DOMAIN a.nums : F32Eq(a.nums[i], b.nums[i])
    /\ a.flags = b.flags
PathCommandEq(a, b) ==
    /\ a.relative = b.relative
    /\ TupleEq(a.movement, b.movement)
    /\ KindEq(a.command, b.command)

---------------------------------------------------------------------------
(* PathCommand::tuple_from_str, PathCommand::from_str *)

NoTuple == <<NoF32, NoF32>>
NotATuple == ParseError("Not a tuple.")
NotACommand == ParseError("Not a command.")
NotEnoughArguments == ParseError("Not enough arguments.")

\* a missing second component is read as 0
TupleOfSingle(x, splits) ==
    IF ~x.ok THEN Err(x.err, NoTuple)
    ELSE IF Len(splits) < 2 THEN Ok(<<x.val, Zero>>)
    ELSE IF ~F32FromStr(splits[2]).ok
         THEN Err(F32FromStr(splits[2]).err, NoTuple)
    ELSE Ok(<<x.val, F32FromStr(splits[2]).val>>)

\* the second piece is looked up before the first is converted
TupleOfEager(x, splits) ==
    IF Len(splits) < 2 THEN Err(NotATuple, NoTuple)
    ELSE IF ~x.ok THEN Err(x.err, NoTuple)
    ELSE IF ~F32FromStr(splits[2]).ok
         THEN Err(F32FromStr(splits[2]).err, NoTuple)
    ELSE Ok(<<x.val, F32FromStr(splits[2]).val>>)

\* the two components are converted in order, each with ?; the second piece
\* is looked up only after the first has parsed
TupleOf(x, splits) ==
    IF ~x.ok THEN Err(x.err, NoTuple)
    ELSE IF Len(splits) < 2 THEN Err(NotATuple, NoTuple)
    ELSE IF ~F32FromStr(splits[2]).ok
         THEN Err(F32FromStr(splits[2]).err, NoTuple)
    ELSE Ok(<<x.val, F32FromStr(splits[2]).val>>)
SplitTuple(splits) == TupleOf(F32FromStr(splits[1]), splits)
tuple_from_str(s) == SplitTuple(SplitComma(Trim(s)))

\* splits.get(i).ok_or("Not enough arguments.")?, then the conversion of the
\* token; i counts from 0 as in the source, the letter being token 0
GetTupleOrDefault(splits, i) ==
    IF i + 1 > Len(splits) THEN Ok(<<Zero, Zero>>)
    ELSE tuple_from_str(splits[i + 1])
\* the tuple is read from the last token of the group
GetTupleLast(splits, i) ==
    IF i + 1 > Len(splits) THEN Err(NotEnoughArguments, NoTuple)
    ELSE tuple_from_str(splits[Len(splits)])
GetTuple(splits, i) ==
    IF i + 1 > Len(splits) THEN Err(NotEnoughArguments, NoTuple)
    ELSE tuple_from_str(splits[i + 1])
\* a token that is no float is read as 0
GetF32OrZero(splits, i) ==
    IF i + 1 > Len(splits) THEN Err(NotEnoughArguments, NoF32)
    ELSE IF ~F32FromStr(splits[i + 1]).ok THEN Ok(Zero)
    ELSE F32FromStr(splits[i + 1])
GetF32(splits, i) ==
    IF i + 1 > Len(splits) THEN Err(NotEnoughArguments, NoF32)
    ELSE F32FromStr(splits[i + 1])
FlagOfOne(n) == IF n.ok THEN Ok(n.val = 1) ELSE Err(n.err, FALSE)
FlagOf(n) == IF n.ok THEN Ok(n.val # 0) ELSE Err(n.err, FALSE)
GetFlag(splits, i) ==
    IF i + 1 > Len(splits) THEN Err(NotEnoughArguments, FALSE)
    ELSE FlagOf(I8FromStr(splits[i + 1]))

\* the first failure of the argument expressions, in evaluation order
RECURSIVE FirstErr(_)
FirstErr(rs) ==
    IF rs = <<>> THEN NoErr
    ELSE IF ~Head(rs).ok THEN Head(rs).err
    ELSE FirstErr(Tail(rs))

\* a constructor call whose arguments rs are evaluated left to right, each
\* with ?: the first error returns, else the command is built from the values
Call(rs, command) ==
    IF FirstErr(rs) # NoErr THEN Err(FirstErr(rs), NoCommand) ELSE Ok(command)
CallMoveTo(a) == Call(<<a>>, move_to(a.val))
CallLineTo(a) == Call(<<a>>, line_to(a.val))
CallHorizontal(a) == Call(<<a>>, horizontal_line_to(a.val))
CallVertical(a) == Call(<<a>>, vertical_line_to(a.val))
CallCubic(a, b, c) == Call(<<a, b, c>>, cubic_bezier_curve(a.val, b.val, c.val))
CallCubicSmooth(a, b) == Call(<<a, b>>, cubic_bezier_curve_smooth(a.val, b.val))
CallQuadratic(a, b) == Call(<<a, b>>, quadratic_bezier_curve(a.val, b.val))
CallQuadraticSmooth(a) == Call(<<a>>, quadratic_bezier_curve_smooth(a.val))
CallArc(a, b, c, d, e, f) ==
    Call(<<a, b, c, d, e, f>>,
         elliptical_arc_curve(a.val, b.val, c.val, d.val, e.val, f.val))

UnrecognisedAsClose == Ok(close)
\* the arm _ of the match
Unrecognised == Err(NotACommand, NoCommand)

\* the match on char.to_ascii_uppercase()
Match(letter, splits) ==
    CASE letter = "M" -> CallMoveTo(GetTuple(splits, 1))
      [] letter = "L" -> CallLineTo(GetTuple(splits, 1))
      [] letter = "H" -> CallHorizontal(GetF32(splits, 1))
      [] letter = "V" -> CallVertical(GetF32(splits, 1))
      [] letter = "C" -> CallCubic(GetTuple(splits, 3), GetTuple(splits, 1),
                                   GetTuple(splits, 2))
      [] letter = "S" -> CallCubicSmooth(GetTuple(splits, 2), GetTuple(splits, 1))
      [] letter = "Q" -> CallQuadratic(GetTuple(splits, 2), GetTuple(splits, 1))
      [] letter = "T" -> CallQuadraticSmooth(GetTuple(splits, 1))
      [] letter = "A" -> CallArc(GetTuple(splits, 6), GetF32(splits, 1),
                                 GetF32(splits, 2), GetF32(splits, 3),
                                 GetFlag(splits, 4), GetFlag(splits, 5))
      [] letter = "Z" -> Ok(close)
      [] OTHER -> Unrecognised

\* the lowercase letter marks the command relative
WithCase(char, command) ==
    IF command.ok /\ IsLowercase(char) THEN Ok(relative(command.val)) ELSE command

UnwrapNone == Panic("called Option::unwrap() on a None value")

\* without the is_empty test, splits[0] is out of bounds on an empty group
FromSplitsUnchecked(splits) ==
    IF splits = <<>> THEN Err(Panic("index out of bounds"), NoCommand)
    ELSE IF ByteLen(splits[1]) > 1 THEN Err(NotACommand, NoCommand)
    ELSE IF splits[1] = <<>> THEN Err(UnwrapNone, NoCommand)
    ELSE WithCase(splits[1][1], Match(ToAsciiUppercase(splits[1][1]), splits))

\* the length of the first token is not looked at
FromSplitsFirstChar(splits) ==
    IF splits = <<>> THEN Err(NotACommand, NoCommand)
    ELSE WithCase(splits[1][1], Match(ToAsciiUppercase(splits[1][1]), splits))

\* splits[0].chars().next().unwrap() panics on an empty first token
FromSplits(splits) ==
    IF splits = <<>> \/ ByteLen(splits[1]) > 1
    THEN Err(NotACommand, NoCommand)
    ELSE IF splits[1] = <<>> THEN Err(UnwrapNone, NoCommand)
    ELSE WithCase(splits[1][1], Match(ToAsciiUppercase(splits[1][1]), splits))

PathCommand_from_str(s) == FromSplits(SplitWhitespace(Trim(s)))

---------------------------------------------------------------------------
(* impl Display for PathCommand *)

fmt_tuple_spaced(tup) == F32ToString(tup[1]) \o <<",", " ">> \o F32ToString(tup[2])
fmt_tuple(tup) == F32ToString(tup[1]) \o <<",">> \o F32ToString(tup[2])
fmt_movement(self) == fmt_tuple(self.movement)
FlagToStringWord(b) == IF b THEN <<"t","r","u","e">> ELSE <<"f","a","l","s","e">>
\* bool as i8, formatted
FlagToString(b) == IF b THEN <<"1">> ELSE <<"0">>

\* the pieces joined by single spaces (the "{} {} {}" format strings)
RECURSIVE JoinWith(_, _)
JoinWith(pieces, sep) ==
    IF pieces = <<>> THEN <<>>
    ELSE IF Len(pieces) = 1 THEN pieces[1]
    ELSE pieces[1] \o sep \o JoinWith(Tail(pieces), sep)

fmt_close_spaced(char) == <<char, " ">>
\* the arm ClosePath: write!(f, "{}", char)
fmt_close(char) == <<char>>

PathCommand_to_string(self) ==
    LET k == self.command
        c0 == as_char(k)
        char == IF self.relative THEN ToAsciiLowercase(c0) ELSE c0
        args ==
            CASE k.name \in {"MoveTo", "LineTo", "QuadraticBezierCurveSmooth"} ->
                    <<fmt_movement(self)>>
              [] k.name = "HorizontalLineTo" -> <<F32ToString(self.movement[1])>>
              [] k.name = "VerticalLineTo" -> <<F32ToString(self.movement[2])>>
              [] k.name = "CubicBezierCurve" ->
                    <<fmt_tuple(k.pts[1]), fmt_tuple(k.pts[2]), fmt_movement(self)>>
              [] k.name \in {"CubicBezierCurveSmooth", "QuadraticBezierCurve"} ->
                    <<fmt_tuple(k.pts[1]), fmt_movement(self)>>
              [] k.name = "EllipticalArcCurve" ->
                    <<F32ToString(k.nums[1]), F32ToString(k.nums[2]),
                      F32ToString(k.nums[3]), FlagToString(k.flags[1]),
                      FlagToString(k.flags[2]), fmt_movement(self)>>
              [] k.name = "ClosePath" -> <<>>
    IN  IF k.name = "ClosePath" THEN fmt_close(char)
        ELSE <<char>> \o <<" ">> \o JoinWith(args, <<" ">>)

---------------------------------------------------------------------------
(* PathShape: new, from_str, Display *)

PathShape(elements) == [elements |-> elements]
new == PathShape(<<>>)
NoShape == PathShape(<<NoCommand>>)
\* the commands are added to the ones the shape holds
with_commands_extend(self, commands) == PathShape(self.elements \o commands)
\* self.elements = commands
with_commands(self, commands) == [self EXCEPT !.elements = commands]

\* str.matches(|c| c.is_alphabetic()): the alphabetic characters, in order
Matches(s) == SelectSeq(s, IsAlphabetic)

\* the non-empty pieces only
SplitAlphabeticNonEmpty(s) ==
    SelectSeq(SplitOn(s, {s[i] : i \in {j \in DOMAIN s : IsAlphabetic(s[j])}}, <<>>),
              LAMBDA p : p # <<>>)

\* str.split(|c| c.is_alphabetic()): the pieces between them, empty ones kept
SplitAlphabetic(s) == SplitOn(s, {s[i] : i \in {j \in DOMAIN s : IsAlphabetic(s[j])}}, <<>>)

\* format!("{} {}", b.trim(), a.trim()).trim()
Group(a, b) == Trim(Trim(<<b>>) \o <<" ">> \o Trim(a))

\* each letter with the piece before it
ZipPreceding(pieces, chars) ==
    [i \in 1..(IF Len(pieces) < Len(chars) THEN Len(pieces) ELSE Len(chars))
        |-> Group(pieces[i], chars[i])]

\* the pieces after the first one, zipped with the letters
Zip(pieces, chars) ==
    [i \in 1..(IF Len(pieces) - 1 < Len(chars) THEN Len(pieces) - 1 ELSE Len(chars))
        |-> Group(pieces[i + 1], chars[i])]

\* the first letter also gets the text before it
GroupsWithLead(s) ==
    [i \in DOMAIN Zip(SplitAlphabetic(s), Matches(s)) |->
        IF i = 1 THEN Group(SplitAlphabetic(s)[1] \o <<" ">> \o SplitAlphabetic(s)[2],
                            Matches(s)[1])
        ELSE Zip(SplitAlphabetic(s), Matches(s))[i]]

Groups(s) == Zip(SplitAlphabetic(s), Matches(s))

\* all groups are parsed and the error of the last failing one is kept
RECURSIVE CollectLast(_, _)
CollectLast(groups, done) ==
    IF groups = <<>> THEN Ok(PathShape(done))
    ELSE IF PathCommand_from_str(Head(groups)).ok
         THEN CollectLast(Tail(groups), Append(done, PathCommand_from_str(Head(groups)).val))
    ELSE IF CollectLast(Tail(groups), done).ok
         THEN Err(PathCommand_from_str(Head(groups)).err, NoShape)
    ELSE CollectLast(Tail(groups), done)

\* .map(PathCommand::from_str).collect::<UkkoResult<Vec<_>>>(): the commands
\* in order, or the error of the first group that fails
RECURSIVE Collect(_, _)
Collect(groups, done) ==
    IF groups = <<>> THEN Ok(PathShape(done))
    ELSE IF ~PathCommand_from_str(Head(groups)).ok
         THEN Err(PathCommand_from_str(Head(groups)).err, NoShape)
    ELSE Collect(Tail(groups), Append(done, PathCommand_from_str(Head(groups)).val))

\* the slice [1..] panics on an empty vector of pieces
SliceOutOfRange == Panic("range start index 1 out of range for slice of length 0")
PathShape_from_str(s) ==
    IF SplitAlphabetic(s) = <<>> THEN Err(SliceOutOfRange, NoShape)
    ELSE Collect(Groups(s), <<>>)

RECURSIVE PathShape_to_string_lines(_)
PathShape_to_string_lines(self) ==
    IF self.elements = <<>> THEN <<>>
    ELSE PathCommand_to_string(Head(self.elements)) \o <<"\n">>
         \o PathShape_to_string_lines(PathShape(Tail(self.elements)))

\* the commands' texts joined by "\n"
PathShape_to_string(self) ==
    JoinWith([i \in DOMAIN self.elements |-> PathCommand_to_string(self.elements[i])],
             <<"\n">>)

\* #[derive(PartialEq)] on PathShape: Vec<PathCommand> equality
PathShapeEq(a, b) ==
    /\ Len(a.elements) = Len(b.elements)
    /\ \A i \in DOMAIN a.elements : PathCommandEq(a.elements[i], b.elements[i])

\* impl Attribute for PathShape
key(self) == <<"d">>
value(self) == PathShape_to_string(self)
\* the key is compared as it is written
from_key_value_exact(k) ==
    IF k[1] # <<"d">> THEN Err(TODO, NoShape) ELSE PathShape_from_str(k[2])
from_key_value(k) ==
    IF LowerStr(k[1]) # <<"d">> THEN Err(TODO, NoShape) ELSE PathShape_from_str(k[2])

---------------------------------------------------------------------------
(* Path, impl SvgElement for Path, SvgElement::to_xml_node *)

\* HashMap<String, String>: a function from keys to values
EmptyMap == [k \in {} |-> <<>>]
\* the value of a key the map holds already is kept
InsertKeep(map, key_, value_) ==
    [k \in DOMAIN map \cup {key_} |-> IF k \in DOMAIN map THEN map[k] ELSE value_]
Insert(map, key_, value_) ==
    [k \in DOMAIN map \cup {key_} |-> IF k = key_ THEN value_ ELSE map[k]]

\* Option<String>
None == [some |-> FALSE, val |-> <<>>]

Path(shape_, attributes_, value_) ==
    [shape |-> shape_, attributes |-> attributes_, value |-> value_]
NoPath == Path(NoShape, EmptyMap, None)
to_path(self) == Path(self, EmptyMap, None)

children(self) == <<>>
attributes_clone(self) == self.attributes
attributes(self) == Insert(self.attributes, <<"d">>, PathShape_to_string(self.shape))
name(self) == <<"p", "a", "t", "h">>
\* SvgElement::with_attribute: self.attributes_mut().insert(key, value)
with_attribute(self, key_, value_) ==
    [self EXCEPT !.attributes = Insert(self.attributes, key_, value_)]

\* xmltree::Element, the fields to_xml_node sets
Element(name_, attributes_, children_) ==
    [prefix |-> None, namespace |-> None, namespaces |-> None,
     name |-> name_, attributes |-> attributes_, children |-> children_]
NoElement == Element(<<>>, EmptyMap, <<>>)
\* the children of a Path are none, so the map over them is empty
to_xml_node(self) == Element(name(self), attributes(self), children(self))

---------------------------------------------------------------------------
(* The command texts the model tries *)

\* tuple tokens tried for M, L and T: canonical, non-canonical and malformed
TupleBig ==
    { <<"1",",","1">>,   \* 1,1
      <<"3",".","5",",","1","0">>,   \* 3.5,10
      <<"-","0",",","0",".","0","5">>,   \* -0,0.05
      <<"N","a","N",",","1">>,   \* NaN,1
      <<"i","n","f",",","-","i","n","f">>,   \* inf,-inf
      <<"1","0",".",",","1","e","1">>,   \* 10.,1e1
      <<"+","1",",",".","5">>,   \* +1,.5
      <<"1","5","0","0",",","1",".","5","0">>,   \* 1500,1.50
      <<"1">>,   \* 1
      <<"1",",">>,   \* 1,
      <<",","1">>,   \* ,1
      <<"1",",","2",",","3">>,   \* 1,2,3
      <<"x",",","1">>,   \* x,1
      <<"x">> }   \* x

\* tuple tokens tried for C, S, Q, A and after an unrecognised letter
TupleSmall ==
    { <<"1",",","1">>,   \* 1,1
      <<"3",".","5",",","1","0">>,   \* 3.5,10
      <<"2",",","-","0">>,   \* 2,-0
      <<"1","0",".",",","1","e","1">>,   \* 10.,1e1
      <<"7">> }   \* 7

\* scalar tokens tried for H and V
ScalarBig ==
    { <<"1">>,   \* 1
      <<"3",".","5">>,   \* 3.5
      <<"-","0">>,   \* -0
      <<"0",".","0","5">>,   \* 0.05
      <<"N","a","N">>,   \* NaN
      <<"i","n","f">>,   \* inf
      <<"-","i","n","f">>,   \* -inf
      <<"1","0",".">>,   \* 10.
      <<"1","e","1">>,   \* 1e1
      <<"+","1">>,   \* +1
      <<".","5">>,   \* .5
      <<"1","5","0","0">>,   \* 1500
      <<"x">>,   \* x
      <<"1",",","1">>,   \* 1,1
      <<"-">>,   \* -
      <<".">> }   \* .

\* scalar tokens tried for the radii and the angle of A
ScalarSmall ==
    { <<"1">>,   \* 1
      <<"2">>,   \* 2
      <<"3",".","5">>,   \* 3.5
      <<"x">> }   \* x

\* tokens tried for the two flags of A
FlagTokens ==
    { <<"0">>,   \* 0
      <<"1">>,   \* 1
      <<"2">>,   \* 2
      <<"-","1">>,   \* -1
      <<"1","2","7">>,   \* 127
      <<"1","2","8">>,   \* 128
      <<"-","1","2","8">>,   \* -128
      <<"-","1","2","9">>,   \* -129
      <<"3","0","0">>,   \* 300
      <<"1",".","0">>,   \* 1.0
      <<"+","1">>,   \* +1
      <<"-","0">> }   \* -0

\* tokens tried after the last argument a kind consumes
SurplusTokens ==
    { <<"9",",","9">>,   \* 9,9
      <<"8">>,   \* 8
      <<"x">> }   \* x

Palette(class) ==
    CASE class = "TupleBig" -> TupleBig
      [] class = "TupleSmall" -> TupleSmall
      [] class = "ScalarBig" -> ScalarBig
      [] class = "ScalarSmall" -> ScalarSmall
      [] class = "Flag" -> FlagTokens

\* the letters of the ten kinds, and letter tokens that name no kind
KindLetters == {"M", "L", "H", "V", "C", "S", "Q", "T", "A", "Z"}
LetterTokens ==
    {<<c>> : c \in KindLetters} \cup {<<ToAsciiLowercase(c)>> : c \in KindLetters}
OtherLetterTokens ==
    {<<"X">>, <<"x">>, <<"e">>, <<"1">>, <<"U+00E9">>, <<"M", "M">>, <<"z", "Z">>}

\* the classes of the argument tokens tried after a letter token
Signature(tok) ==
    LET u == ToAsciiUppercase(tok[1])
    IN  IF Len(tok) # 1 THEN <<"TupleSmall", "TupleSmall">>
        ELSE IF u \in {"M", "L", "T"} THEN <<"TupleBig">>
        ELSE IF u \in {"H", "V"} THEN <<"ScalarBig">>
        ELSE IF u = "C" THEN <<"TupleSmall", "TupleSmall", "TupleSmall">>
        ELSE IF u \in {"S", "Q"} THEN <<"TupleSmall", "TupleSmall">>
        ELSE IF u = "A" THEN <<"ScalarSmall", "ScalarSmall", "ScalarSmall",
                               "Flag", "Flag", "TupleSmall">>
        ELSE IF u = "Z" THEN <<>>
        ELSE <<"TupleSmall", "TupleSmall">>

\* a canonical argument list of pairwise different values
BaseToken(class, i) ==
    CASE class \in {"TupleBig", "TupleSmall"} ->
            IF i % 3 = 1 THEN <<"1", ",", "1">>
            ELSE IF i % 3 = 2 THEN <<"3", ".", "5", ",", "1", "0">>
            ELSE <<"2", ",", "-", "0">>
      [] class \in {"ScalarBig", "ScalarSmall"} ->
            IF i = 1 THEN <<"1">> ELSE IF i = 2 THEN <<"2">> ELSE <<"3", ".", "5">>
      [] class = "Flag" -> IF i = 4 THEN <<"0">> ELSE <<"1">>

\* how many tokens of a text may differ from the canonical list: replaced
\* tokens, surplus tokens and non-canonical whitespace each count for one
MaxEdits == 2

\* whitespace around and between the tokens: canonical is the first, the last
\* writes the tokens with nothing between them
Styles ==
    << [lead |-> <<>>, sep |-> <<" ">>, trail |-> <<>>],
       [lead |-> <<" ">>, sep |-> <<" ", " ">>, trail |-> <<"\n">>],
       [lead |-> <<>>, sep |-> <<"\n">>, trail |-> <<" ">>],
       [lead |-> <<"\t">>, sep |-> <<"\t">>, trail |-> <<>>],
       [lead |-> <<>>, sep |-> <<>>, trail |-> <<>>] >>

Compose(tokens, style) ==
    Styles[style].lead \o JoinWith(tokens, Styles[style].sep) \o Styles[style].trail

\* the command texts a caller puts into a shape text: well-formed ones, one
\* without whitespace after its letter, ones that fail, one without a letter,
\* one with an exponent letter, a non-ASCII letter, two commands at once
ChunkTexts ==
    { <<"M"," ","1",",","1">>,
      <<"z">>,
      <<"S"," ","1",",","1"," ","3",".","5",",","1","0">>,
      <<"a"," ","1"," ","2"," ","3",".","5"," ","0"," ","1"," ","1",",","1">>,
      <<"H"," ","1","0",".">>,
      <<"M","1",",","1">>,
      <<"X"," ","1",",","1">>,
      <<"L"," ","7">>,
      <<"9"," ","9">>,
      <<"V"," ","1","e","1">>,
      <<"U+00E9">>,
      <<"T"," ","2",",","-","0"," ","Z">> }

\* what the caller writes before each of them
Junctions == {<<>>, <<" ">>, <<"\n">>}

\* how many of them a shape text is made of
MaxChunks == 2

\* texts without any token
BlankTexts == {<<>>, <<" ">>, <<"\n">>, <<"\t", " ">>, <<" ", "\n", " ">>}

---------------------------------------------------------------------------
(* The command pipeline: a caller writes a text token by token, parses it, *)
(* formats the command and parses the formatted text again                 *)

NoResult == [ok |-> FALSE, val |-> NoCommand, err |-> NoErr]
NoShapeResult == [ok |-> FALSE, val |-> NoShape, err |-> NoErr]

Init ==
    /\ toks = <<>>
    /\ edits = 0
    /\ pc = "write"
    /\ str = <<>>
    /\ parsed = NoResult
    /\ text = <<>>
    /\ reparsed = NoResult
    /\ chunks = 0
    /\ shapeStr = <<>>
    /\ spc = "write"
    /\ shape = NoShapeResult
    /\ stdout = <<>>
    /\ shapeText = <<>>
    /\ path = NoPath
    /\ node = NoElement
    /\ built = NoCommand
    /\ bpc = "new"
    /\ builtText = <<>>
    /\ given = <<>>
    /\ made = new
    /\ mpc = "new"
    /\ madeText = <<>>
    /\ remade = NoShapeResult
    /\ attr = <<>>
    /\ elem = NoPath
    /\ log = <<>>
    /\ attrs = EmptyMap
    /\ kv = <<>>
    /\ fromKv = NoShapeResult

\* the caller writes the letter token
WriteLetter ==
    /\ pc = "write"
    /\ toks = <<>>
    /\ \E tok \in LetterTokens \cup OtherLetterTokens : toks' = <<tok>>
    /\ UNCHANGED <<edits, pc, str, parsed, text, reparsed, shapeVars, buildVars>>

\* the caller writes the next argument token: the canonical one, or another
\* one of its class
WriteArg ==
    /\ pc = "write"
    /\ toks # <<>>
    /\ Len(toks) <= Len(Signature(toks[1]))
    /\ LET i == Len(toks)
           class == Signature(toks[1])[i]
       IN  \E t \in Palette(class) :
              /\ toks' = Append(toks, t)
              /\ IF t = BaseToken(class, i) THEN edits' = edits
                 ELSE edits < MaxEdits /\ edits' = edits + 1
    /\ UNCHANGED <<pc, str, parsed, text, reparsed, shapeVars, buildVars>>

\* the caller writes a token after the last one the kind consumes
WriteSurplus ==
    /\ pc = "write"
    /\ toks # <<>>
    /\ Len(toks) > Len(Signature(toks[1]))
    /\ edits < MaxEdits
    /\ \E t \in SurplusTokens : toks' = Append(toks, t)
    /\ edits' = edits + 1
    /\ UNCHANGED <<pc, str, parsed, text, reparsed, shapeVars, buildVars>>

\* PathCommand::from_str(str), str being the tokens written so far with
\* some whitespace, or a text without tokens
Parse ==
    /\ pc = "write"
    /\ \E style \in DOMAIN Styles, blank \in BlankTexts :
          /\ style # 1 => toks # <<>> /\ edits < MaxEdits
          /\ toks # <<>> => blank = <<>>
          /\ str' = IF toks = <<>> THEN blank ELSE Compose(toks, style)
    /\ parsed' = PathCommand_from_str(str')
    /\ pc' = "parsed"
    /\ UNCHANGED <<toks, edits, text, reparsed, shapeVars, buildVars>>

\* parsed.unwrap().to_string()
Format ==
    /\ pc = "parsed"
    /\ parsed.ok
    /\ text' = PathCommand_to_string(parsed.val)
    /\ pc' = "formatted"
    /\ UNCHANGED <<toks, edits, str, parsed, reparsed, shapeVars, buildVars>>

\* PathCommand::from_str(text)
Reparse ==
    /\ pc = "formatted"
    /\ reparsed' = PathCommand_from_str(text)
    /\ pc' = "reparsed"
    /\ UNCHANGED <<toks, edits, str, parsed, text, shapeVars, buildVars>>

Next == WriteLetter \/ WriteArg \/ WriteSurplus \/ Parse \/ Format \/ Reparse

Spec == Init /\ [][Next]_vars

---------------------------------------------------------------------------
(* The shape pipeline: a caller writes a shape text command by command,    *)
(* parses it and formats the shape                                         *)

\* the caller adds a command text to the shape text
WriteChunk ==
    /\ spc = "write"
    /\ chunks < MaxChunks
    /\ \E c \in ChunkTexts, j \in Junctions : shapeStr' = shapeStr \o j \o c
    /\ chunks' = chunks + 1
    /\ UNCHANGED <<spc, shape, stdout, shapeText, path, node, commandVars, buildVars>>

\* PathShape::from_str(shapeStr): the groups are printed, then parsed
ShapeParse ==
    /\ spc = "write"
    /\ stdout' = Append(stdout, Groups(shapeStr))
    /\ shape' = PathShape_from_str(shapeStr)
    /\ spc' = "parsed"
    /\ UNCHANGED <<chunks, shapeStr, shapeText, path, node, commandVars, buildVars>>

\* shape.unwrap().to_string()
ShapeFormat ==
    /\ spc = "parsed"
    /\ shape.ok
    /\ shapeText' = PathShape_to_string(shape.val)
    /\ spc' = "formatted"
    /\ UNCHANGED <<chunks, shapeStr, shape, stdout, path, node, commandVars, buildVars>>

\* shape.unwrap().to_path()
ToPath ==
    /\ spc = "parsed"
    /\ shape.ok
    /\ path' = to_path(shape.val)
    /\ spc' = "path"
    /\ UNCHANGED <<chunks, shapeStr, shape, stdout, shapeText, node, commandVars, buildVars>>

\* path.to_xml_node()
ToXmlNode ==
    /\ spc = "path"
    /\ node' = to_xml_node(path)
    /\ spc' = "node"
    /\ UNCHANGED <<chunks, shapeStr, shape, stdout, shapeText, path, commandVars, buildVars>>

ShapeNext == WriteChunk \/ ShapeParse \/ ShapeFormat \/ ToPath \/ ToXmlNode

ShapeSpec == Init /\ [][ShapeNext]_vars

---------------------------------------------------------------------------
(* Formatting of commands built without parsing: the fields of PathCommand *)
(* are public, so a caller can hold any value of the type                  *)

BuiltValues == {Zero, Num(TRUE, 35, -1), Num(FALSE, 1, 1), NaN(FALSE)}
BuiltTuples ==
    { <<Zero, Zero>>, <<Num(FALSE, 1, 1), Num(TRUE, 35, -1)>>,
      <<NaN(FALSE), Num(FALSE, 1, 1)>>, <<Num(TRUE, 35, -1), Zero>> }
BuiltKinds ==
    {Kind(n, <<>>, <<>>, <<>>) :
        n \in {"MoveTo", "LineTo", "HorizontalLineTo", "VerticalLineTo",
               "QuadraticBezierCurveSmooth", "ClosePath"}}
    \cup {Kind("CubicBezierCurve", <<c1, c2>>, <<>>, <<>>) :
            c1 \in BuiltTuples, c2 \in BuiltTuples}
    \cup {Kind(n, <<c>>, <<>>, <<>>) :
            n \in {"CubicBezierCurveSmooth", "QuadraticBezierCurve"}, c \in BuiltTuples}
    \cup {Kind("EllipticalArcCurve", <<>>, <<rx, ry, angle>>, <<large, sweep>>) :
            rx \in BuiltValues, ry \in BuiltValues, angle \in BuiltValues,
            large \in BOOLEAN, sweep \in BOOLEAN}

\* PathCommand { relative, movement, command }
Build ==
    /\ bpc = "new"
    /\ \E r \in BOOLEAN, mv \in BuiltTuples, k \in BuiltKinds :
          built' = PathCommand(r, mv, k)
    /\ bpc' = "built"
    /\ UNCHANGED <<builtText, madeVars, pathVars, commandVars, shapeVars>>

\* built.to_string()
Show ==
    /\ bpc = "built"
    /\ builtText' = PathCommand_to_string(built)
    /\ bpc' = "shown"
    /\ UNCHANGED <<built, madeVars, pathVars, commandVars, shapeVars>>

BuildNext == Build \/ Show

FormatSpec == Init /\ [][BuildNext]_vars

\* both pipelines, one of them per run
CommandIdle == toks = <<>> /\ pc = "write"
ShapeIdle == chunks = 0 /\ spc = "write"
CodecNext == (ShapeIdle /\ Next) \/ (CommandIdle /\ ShapeNext)

CodecSpec == Init /\ [][CodecNext]_vars

---------------------------------------------------------------------------
(* The construction pipeline: a caller builds commands with the public     *)
(* constructors and relative(), puts them into a shape with with_commands, *)
(* formats the shape and parses the text again                             *)

\* finite points: (10,-3.5), (-0,0.05), (1500,1)
Points ==
    << <<Num(FALSE, 1, 1), Num(TRUE, 35, -1)>>,
       <<Num(TRUE, 0, 0), Num(FALSE, 5, -2)>>,
       <<Num(FALSE, 15, 2), Num(FALSE, 1, 0)>> >>
\* one call of each public constructor, two of the arc with different flags
Constructed ==
    { move_to(Points[1]), line_to(Points[2]),
      horizontal_line_to(Points[1][2]), vertical_line_to(Points[2][2]),
      cubic_bezier_curve(Points[1], Points[2], Points[3]),
      cubic_bezier_curve_smooth(Points[2], Points[3]),
      quadratic_bezier_curve(Points[3], Points[1]),
      quadratic_bezier_curve_smooth(Points[3]),
      elliptical_arc_curve(Points[1], Points[3][1], Points[2][2], Points[1][2],
                           TRUE, FALSE),
      elliptical_arc_curve(Points[2], Points[2][2], Points[3][1], Points[2][1],
                           FALSE, TRUE),
      close }

\* how many commands the caller constructs in all
MaxCommands == 2

\* the Vec the caller is filling: a new one after it has given one away
Pending == IF mpc = "with" THEN <<>> ELSE given

\* PathCommand::move_to(..), ..., PathCommand::close(), pushed to the Vec
Construct ==
    /\ mpc \in {"new", "constructed", "relative", "relative twice", "with"}
    /\ Len(made.elements) + Len(Pending) < MaxCommands
    /\ \E c \in Constructed : given' = Append(Pending, c)
    /\ mpc' = "constructed"
    /\ UNCHANGED <<made, madeText, remade, attr, pathVars, built, bpc, builtText,
                   commandVars, shapeVars>>

\* .relative() on the command constructed last, once or twice
Relative ==
    /\ mpc \in {"constructed", "relative"}
    /\ given' = [given EXCEPT ![Len(given)] = relative(given[Len(given)])]
    /\ mpc' = IF mpc = "constructed" THEN "relative" ELSE "relative twice"
    /\ UNCHANGED <<made, madeText, remade, attr, pathVars, built, bpc, builtText,
                   commandVars, shapeVars>>

\* made.with_commands(given): on PathShape::new() first, then on its result
WithCommands ==
    /\ mpc \in {"new", "constructed", "relative", "relative twice", "with"}
    /\ given' = Pending
    /\ made' = with_commands(made, Pending)
    /\ mpc' = "with"
    /\ UNCHANGED <<madeText, remade, attr, pathVars, built, bpc, builtText,
                   commandVars, shapeVars>>

\* made.to_string()
ShapeShow ==
    /\ mpc = "with"
    /\ madeText' = PathShape_to_string(made)
    /\ mpc' = "shown"
    /\ UNCHANGED <<given, made, remade, attr, pathVars, built, bpc, builtText,
                   commandVars, shapeVars>>

\* PathShape::from_str(madeText): the groups are printed, then parsed
ShapeReparse ==
    /\ mpc = "shown"
    /\ stdout' = Append(stdout, Groups(madeText))
    /\ remade' = PathShape_from_str(madeText)
    /\ mpc' = "reparsed"
    /\ UNCHANGED <<given, made, madeText, attr, pathVars, built, bpc, builtText,
                   commandVars, chunks, shapeStr, spc, shape, shapeText, path, node>>

BuilderNext == Construct \/ Relative \/ WithCommands \/ ShapeShow \/ ShapeReparse

BuilderSpec == Init /\ [][BuilderNext]_vars

---------------------------------------------------------------------------
(* The element pipeline: a shape of at most one command is turned into a   *)
(* Path, attributes are set on it and read; a shape is read as an          *)
(* attribute and made from a key and a value                               *)

\* keys and values of the with_attribute calls, keys of from_key_value
Keys == {<<"d">>, <<"D">>, <<"f", "i", "l", "l">>}
AttributeValues == {<<"r", "e", "d">>, <<"M", " ", "0", ",", "0">>}
\* how many with_attribute calls are made on a Path
MaxCalls == 2

\* made.key(), made.value()
AsAttribute ==
    /\ mpc = "with"
    /\ attr' = <<key(made), value(made)>>
    /\ mpc' = "attribute"
    /\ UNCHANGED <<given, made, madeText, remade, pathVars, built, bpc, builtText,
                   commandVars, shapeVars>>

\* made.to_path()
PathOf ==
    /\ mpc = "with"
    /\ elem' = to_path(made)
    /\ mpc' = "path"
    /\ UNCHANGED <<given, made, madeText, remade, attr, log, attrs, kv, fromKv,
                   built, bpc, builtText, commandVars, shapeVars>>

\* elem.with_attribute(key, value)
WithAttribute ==
    /\ mpc \in {"path", "read"}
    /\ Len(log) < MaxCalls
    /\ \E k \in Keys, v \in AttributeValues :
          /\ elem' = with_attribute(elem, k, v)
          /\ log' = Append(log, <<k, v>>)
    /\ mpc' = "path"
    /\ UNCHANGED <<given, made, madeText, remade, attr, attrs, kv, fromKv,
                   built, bpc, builtText, commandVars, shapeVars>>

\* elem.attributes()
Attributes ==
    /\ mpc = "path"
    /\ attrs' = attributes(elem)
    /\ mpc' = "read"
    /\ UNCHANGED <<given, made, madeText, remade, attr, elem, log, kv, fromKv,
                   built, bpc, builtText, commandVars, shapeVars>>

\* PathShape::from_key_value((key, value)): from_str, when it is called,
\* prints the groups
FromKeyValue ==
    /\ mpc = "new"
    /\ given = <<>>
    /\ \E k \in Keys, v \in ChunkTexts \cup BlankTexts : kv' = <<k, v>>
    /\ fromKv' = from_key_value(kv')
    /\ stdout' = IF fromKv'.err = TODO THEN stdout ELSE Append(stdout, Groups(kv'[2]))
    /\ mpc' = "from key value"
    /\ UNCHANGED <<given, made, madeText, remade, attr, elem, log, attrs,
                   built, bpc, builtText,
                   commandVars, chunks, shapeStr, spc, shape, shapeText, path, node>>

\* one command at most, one with_commands call
OneCommand == given = <<>> /\ mpc = "new"
Once == mpc # "with"
ElementNext ==
    \/ (OneCommand /\ Construct) \/ Relative \/ (Once /\ WithCommands)
    \/ AsAttribute \/ PathOf \/ WithAttribute \/ Attributes \/ FromKeyValue

ElementSpec == Init /\ [][ElementNext]_vars

---------------------------------------------------------------------------
(* What the claims speak of *)

\* the whitespace-delimited tokens of str are the tokens the caller wrote
Spaced == toks # <<>> /\ SplitWhitespace(str) = toks
Called == pc # "write"
Formatted == pc \in {"formatted", "reparsed"}
LetterWritten == toks[1][1]
UpperLetter == ToAsciiUppercase(toks[1][1])
IsParseError(result) == ~result.ok /\ result.err.variant = "ParseError"

\* the kind each letter stands for, and the arguments it takes
KindOfLetter(u) ==
    CASE u = "M" -> "MoveTo"
      [] u = "L" -> "LineTo"
      [] u = "H" -> "HorizontalLineTo"
      [] u = "V" -> "VerticalLineTo"
      [] u = "C" -> "CubicBezierCurve"
      [] u = "S" -> "CubicBezierCurveSmooth"
      [] u = "Q" -> "QuadraticBezierCurve"
      [] u = "T" -> "QuadraticBezierCurveSmooth"
      [] u = "A" -> "EllipticalArcCurve"
      [] u = "Z" -> "ClosePath"
ArgClasses(u) ==
    CASE u \in {"M", "L", "T"} -> <<"tuple">>
      [] u \in {"H", "V"} -> <<"scalar">>
      [] u \in {"S", "Q"} -> <<"tuple", "tuple">>
      [] u = "C" -> <<"tuple", "tuple", "tuple">>
      [] u = "A" -> <<"scalar", "scalar", "scalar", "flag", "flag", "tuple">>
      [] u = "Z" -> <<>>

HasComma(tok) == \E i \in DOMAIN tok : tok[i] = ","

\* a number as f32's Display writes it: NaN, inf, -inf, or an optional minus,
\* an integer part without leading zeros and an optional fraction that does
\* not end in 0
CanonicalDecimal(body) ==
    /\ Before(body, {"."}) # <<>>
    /\ AllDigits(Before(body, {"."}))
    /\ Len(Before(body, {"."})) = 1 \/ Head(body) # "0"
    /\ \/ \A i \in DOMAIN body : body[i] # "."
       \/ /\ After(body, {"."}) # <<>>
          /\ AllDigits(After(body, {"."}))
          /\ body[Len(body)] # "0"
CanonicalNumber(tok) ==
    \/ tok \in {<<"N","a","N">>, <<"i","n","f">>, <<"-","i","n","f">>}
    \/ CanonicalDecimal(IF tok # <<>> /\ Head(tok) = "-" THEN Tail(tok) ELSE tok)
CanonicalToken(class, tok) ==
    CASE class = "tuple" ->
            /\ HasComma(tok)
            /\ CanonicalNumber(Before(tok, {","}))
            /\ CanonicalNumber(After(tok, {","}))
      [] class = "scalar" -> CanonicalNumber(tok)
      [] class = "flag" -> tok \in {<<"0">>, <<"1">>}

\* str is a canonical command text: a letter of a kind, its arguments in the
\* formatter's own form, single spaces, nothing around
CanonicalText ==
    /\ toks # <<>>
    /\ toks[1] \in LetterTokens
    /\ str = JoinWith(toks, <<" ">>)
    /\ Len(toks) = 1 + Len(ArgClasses(UpperLetter))
    /\ \A i \in 1..(Len(toks) - 1) :
          CanonicalToken(ArgClasses(UpperLetter)[i], toks[i + 1])

\* C1: a canonical command text parses, and the parsed command formats back
\* to exactly that text
C1_TextRoundTrip ==
    (Called /\ CanonicalText) =>
        /\ parsed.ok
        /\ Formatted => text = str

C1_Witness ==
    /\ CanonicalText /\ pc = "formatted" /\ text = str
    /\ toks[1] = <<"a">>
    /\ toks[7] = <<"3", ".", "5", ",", "1", "0">>

\* C2: whatever text parses, its formatted command parses again to a command
\* equal (PartialEq) to the first
C2_StructureRoundTrip ==
    pc = "reparsed" => reparsed.ok /\ PathCommandEq(reparsed.val, parsed.val)

\* a NaN among the numbers of a command
HasNaN(c) ==
    \/ \E i \in 1..2 : c.movement[i].kind = "nan"
    \/ \E i \in DOMAIN c.command.pts : \E j \in 1..2 : c.command.pts[i][j].kind = "nan"
    \/ \E i \in DOMAIN c.command.nums : c.command.nums[i].kind = "nan"

\* C2 for the commands without NaN: the round trip gives an equal command
C2_RoundTripWithoutNaN ==
    (pc = "reparsed" /\ ~HasNaN(parsed.val)) =>
        reparsed.ok /\ PathCommandEq(reparsed.val, parsed.val)

\* the text of the same tokens with the letter in upper case
UpperText == JoinWith(<< <<UpperLetter>> >> \o Tail(toks), <<" ">>)

\* C3: the command is relative exactly when its letter is lowercase, and is
\* otherwise the command of the uppercase letter; the formatted letter is
\* the kind's letter, lowercase exactly when the command is relative
C3_RelativeMode ==
    (Called /\ Spaced /\ toks[1] \in LetterTokens) =>
        /\ parsed.ok = PathCommand_from_str(UpperText).ok
        /\ parsed.ok =>
            /\ parsed.val.relative = (LetterWritten \in LowerSet)
            /\ ~PathCommand_from_str(UpperText).val.relative
            /\ parsed.val.movement = PathCommand_from_str(UpperText).val.movement
            /\ parsed.val.command = PathCommand_from_str(UpperText).val.command
            /\ parsed.val.command.name = KindOfLetter(UpperLetter)
        /\ Formatted =>
            /\ KindOfLetter(ToAsciiUppercase(text[1])) = parsed.val.command.name
            /\ (text[1] \in LowerSet) = parsed.val.relative
            /\ (text[1] \in UpperSet) = ~parsed.val.relative

C3_Witness ==
    /\ pc = "formatted" /\ Spaced /\ toks[1] = <<"q">>
    /\ parsed.val.relative /\ text[1] = "q"

\* the pair of numbers a tuple token stands for
TupleValue(tok) == tuple_from_str(tok).val

\* C4: C stores its first two tuples as the control points and its third as
\* the endpoint, S and Q their first tuple as the control point and their
\* second as the endpoint; the formatted text has them in that same order
C4_BezierOrder ==
    (Called /\ Spaced /\ parsed.ok /\ toks[1] \in LetterTokens) =>
        /\ UpperLetter = "C" =>
            /\ parsed.val.command.pts = <<TupleValue(toks[2]), TupleValue(toks[3])>>
            /\ parsed.val.movement = TupleValue(toks[4])
            /\ Formatted =>
                  SubSeq(SplitWhitespace(text), 2, 4) =
                      << fmt_tuple(TupleValue(toks[2])), fmt_tuple(TupleValue(toks[3])),
                         fmt_tuple(TupleValue(toks[4])) >>
        /\ UpperLetter \in {"S", "Q"} =>
            /\ parsed.val.command.pts = <<TupleValue(toks[2])>>
            /\ parsed.val.movement = TupleValue(toks[3])
            /\ Formatted =>
                  SubSeq(SplitWhitespace(text), 2, 3) =
                      << fmt_tuple(TupleValue(toks[2])), fmt_tuple(TupleValue(toks[3])) >>

C4_Witness ==
    /\ pc = "formatted" /\ toks[1] = <<"C">> /\ Len(toks) = 4
    /\ toks[2] # toks[3] /\ toks[3] # toks[4] /\ toks[2] # toks[4]
    /\ text = str

\* the arguments of an A text other than its flags are well formed and its
\* two flag tokens are integers
IsInteger(tok) == Unsigned(tok) # <<>> /\ AllDigits(Unsigned(tok))
IntegerValue(tok) ==
    IF Head(tok) = "-" THEN 0 - DecVal(Unsigned(tok)) ELSE DecVal(Unsigned(tok))
InI8(tok) == IntegerValue(tok) \in -128..127
ArcWithIntegerFlags ==
    /\ Spaced /\ UpperLetter = "A" /\ Len(toks[1]) = 1 /\ Len(toks) >= 7
    /\ \A i \in 2..4 : F32FromStr(toks[i]).ok
    /\ tuple_from_str(toks[7]).ok
    /\ IsInteger(toks[5]) /\ IsInteger(toks[6])
Bit(b) == IF b THEN <<"1">> ELSE <<"0">>
ArcFlagsRead ==
    /\ parsed.ok
    /\ parsed.val.command.flags = <<IntegerValue(toks[5]) # 0, IntegerValue(toks[6]) # 0>>
    /\ Formatted =>
          SplitWhitespace(text) =
              << <<LetterWritten>>, F32ToString(F32FromStr(toks[2]).val),
                 F32ToString(F32FromStr(toks[3]).val),
                 F32ToString(F32FromStr(toks[4]).val),
                 Bit(IntegerValue(toks[5]) # 0), Bit(IntegerValue(toks[6]) # 0),
                 fmt_tuple(TupleValue(toks[7])) >>

\* C5 as stated for any integer: every integer flag token is read, true
\* exactly when it is not 0, each flag by itself, and written back as 1 or 0
\* in the order rx ry angle large-arc sweep endpoint
C5_ArcFlagsAnyInteger == (Called /\ ArcWithIntegerFlags) => ArcFlagsRead

\* C5: the same for the integer tokens of -128..127, the values of an i8:
\* each flag is true exactly when its token is not 0 and is written 1 or 0
C5_ArcFlags ==
    (Called /\ ArcWithIntegerFlags /\ InI8(toks[5]) /\ InI8(toks[6])) => ArcFlagsRead

C5_Witness ==
    /\ pc = "formatted" /\ ArcWithIntegerFlags
    /\ toks[5] = <<"2">> /\ toks[6] = <<"-", "1">>
    /\ parsed.val.command.flags = <<TRUE, TRUE>>
    /\ SubSeq(SplitWhitespace(text), 5, 6) = << <<"1">>, <<"1">> >>

\* the positions of the alphabetic characters of s, in order
LetterPositions(s) ==
    SelectSeq([i \in DOMAIN s |-> i], LAMBDA i : IsAlphabetic(s[i]))
\* the command texts of s: each letter, a space and the text strictly between
\* the letter and the next one (or the end of s); and what each parses to
GroupTexts(s) ==
    LET pos == LetterPositions(s)
    IN  [k \in DOMAIN pos |->
            <<s[pos[k]], " ">>
            \o SubSeq(s, pos[k] + 1, IF k < Len(pos) THEN pos[k + 1] - 1 ELSE Len(s))]
GroupResults(s) ==
    LET texts == GroupTexts(s)
    IN  [k \in DOMAIN texts |-> PathCommand_from_str(texts[k])]
\* PathShape::from_str has just returned
ShapeCalled == spc = "parsed"
ShapeFormatted == spc = "formatted"

\* C6: a parsed shape has one command per alphabetic character of the text,
\* in order, each the command read from that letter, a space and the text
\* between the letter and the next one (or the end of the text)
C6_ShapeSplitting ==
    (ShapeCalled /\ shape.ok) =>
        LET results == GroupResults(shapeStr)
        IN  /\ Len(shape.val.elements) = Len(LetterPositions(shapeStr))
            /\ DOMAIN results = DOMAIN shape.val.elements
            /\ \A k \in DOMAIN shape.val.elements :
                  /\ results[k].ok
                  /\ results[k].val = shape.val.elements[k]

C6_Witness ==
    /\ spc = "parsed" /\ shape.ok
    /\ shapeStr = <<"M","1",",","1","z">>
    /\ shape.val.elements = <<move_to(<<Num(FALSE, 1, 0), Num(FALSE, 1, 0)>>),
                              relative(close)>>

\* C7: the text of a shape is the texts of its commands, in order, with one
\* newline between two of them and nothing before or after; the text of
\* the empty shape is empty
C7_ShapeFormatting ==
    ShapeFormatted =>
        IF shape.val.elements = <<>> THEN shapeText = <<>>
        ELSE SplitOn(shapeText, {"\n"}, <<>>) =
                 [k \in DOMAIN shape.val.elements |->
                     PathCommand_to_string(shape.val.elements[k])]

C7_Witness ==
    /\ ShapeFormatted
    /\ Len(shape.val.elements) = 3
    /\ shapeText = <<"M"," ","1",",","1","\n","T"," ","2",",","-","0","\n","Z">>

\* some alphabetic character of s is the letter of no kind
UnrecognisedLetter(s) ==
    \E i \in DOMAIN s : IsAlphabetic(s[i]) /\ ToAsciiUppercase(s[i]) \notin KindLetters

\* C8: a one-character letter token that names no kind makes the command
\* text fail, and an alphabetic character that names no kind makes the
\* shape text fail
C8_UnrecognisedLetter ==
    /\ (Called /\ Spaced /\ Len(toks[1]) = 1 /\ toks[1] \notin LetterTokens) =>
            IsParseError(parsed)
    /\ (ShapeCalled /\ UnrecognisedLetter(shapeStr)) => IsParseError(shape)

C8_Witness ==
    /\ spc = "parsed"
    /\ shapeStr = <<"M"," ","1",",","1"," ","X"," ","1",",","1">>
    /\ IsParseError(shape)

\* the text has fewer argument tokens than its kind takes, or a tuple token
\* of it has no second component
LacksSecond(tok) == ~HasComma(tok) \/ After(tok, {","}) = <<>>
MissingArgument ==
    \/ Len(toks) - 1 < Len(ArgClasses(UpperLetter))
    \/ \E i \in 1..(Len(toks) - 1) :
          /\ i <= Len(ArgClasses(UpperLetter))
          /\ ArgClasses(UpperLetter)[i] = "tuple"
          /\ LacksSecond(toks[i + 1])

\* C9: a text of a kind other than Z with fewer argument tokens than the
\* kind takes, or with a tuple token that has no second component, fails
\* with a parse error: no command is returned
C9_MissingArgument ==
    (Called /\ Spaced /\ toks[1] \in LetterTokens /\ UpperLetter # "Z"
        /\ MissingArgument) => IsParseError(parsed)

C9_Witness ==
    /\ pc = "parsed" /\ Spaced
    /\ toks[1] = <<"A">> /\ Len(toks) = 6
    /\ IsParseError(parsed)

\* s is empty or whitespace only
Blank(s) == \A i \in DOMAIN s : IsWhitespace(s[i])

\* C10: the empty text and the texts of whitespace only fail with a parse
\* error
C10_EmptyCommandText == (Called /\ Blank(str)) => IsParseError(parsed)

C10_Witness ==
    /\ pc = "parsed" /\ str = <<" ", "\n", " ">>
    /\ IsParseError(parsed)

\* C11: the empty shape text fails with a parse error
C11_EmptyShapeText == (ShapeCalled /\ shapeStr = <<>>) => IsParseError(shape)

\* the call returned Ok or Err
Returned(result) == result.ok \/ IsParseError(result)

\* C12: PathCommand::from_str and PathShape::from_str never panic, whatever
\* the text: each call returns Ok or Err
C12_NoPanic ==
    /\ Called => Returned(parsed)
    /\ pc = "reparsed" => Returned(reparsed)
    /\ ShapeCalled => Returned(shape)

C12_Witness ==
    /\ spc = "parsed"
    /\ shapeStr = <<"U+00E9">>
    /\ shape.err = NotACommand

\* the command texts of s that fail to parse, and the first of a set of them
FailingGroups(s) ==
    LET results == GroupResults(s) IN {k \in DOMAIN results : ~results[k].ok}
First(ks) == CHOOSE k \in ks : \A j \in ks : k <= j

\* C13: when a group of the shape text fails to parse, PathShape::from_str
\* returns the error of the first failing group and no shape, whatever the
\* later groups are
C13_FailFast ==
    ShapeCalled =>
        LET results == GroupResults(shapeStr)
            failing == {k \in DOMAIN results : ~results[k].ok}
        IN  failing # {} =>
                /\ ~shape.ok
                /\ shape.val = NoShape
                /\ shape.err = results[First(failing)].err

C13_Witness ==
    /\ spc = "parsed"
    /\ shapeStr = <<"L"," ","7"," ","X"," ","1",",","1">>
    /\ FailingGroups(shapeStr) = {1, 2}
    /\ shape.err = NotATuple

\* C14: parsing and formatting write nothing to standard output
C14_NoOutput == stdout = <<>>

\* the texts of the commands of a shape, in order
CommandTexts(sh) == [k \in DOMAIN sh.elements |-> PathCommand_to_string(sh.elements[k])]

\* C15: the Path of a shape is named "path", has no children and has the
\* attribute d, whose value is the text of the shape (the commands' texts
\* joined by newlines); its XML node has that name, that attribute map and
\* no children
C15_XmlArtifact ==
    spc = "node" =>
        /\ name(path) = <<"p", "a", "t", "h">>
        /\ children(path) = <<>>
        /\ <<"d">> \in DOMAIN attributes(path)
        /\ attributes(path)[<<"d">>] = JoinWith(CommandTexts(shape.val), <<"\n">>)
        /\ node.name = <<"p", "a", "t", "h">>
        /\ node.attributes = attributes(path)
        /\ DOMAIN node.attributes = {<<"d">>}
        /\ node.children = <<>>

C15_Witness ==
    /\ spc = "node"
    /\ node.attributes[<<"d">>] = <<"M"," ","1",",","1","\n","z">>
    /\ node.children = <<>>

\* C16: an H text stores its number as movement.0 with movement.1 = 0, a V
\* text as movement.1 with movement.0 = 0, and the formatted text is the
\* letter and that one number only
C16_SingleAxis ==
    (Called /\ Spaced /\ toks[1] \in LetterTokens /\ UpperLetter \in {"H", "V"}
        /\ parsed.ok) =>
        /\ UpperLetter = "H" =>
              /\ parsed.val.command.name = KindOfLetter("H")
              /\ parsed.val.movement = <<F32FromStr(toks[2]).val, Zero>>
        /\ UpperLetter = "V" =>
              /\ parsed.val.command.name = KindOfLetter("V")
              /\ parsed.val.movement = <<Zero, F32FromStr(toks[2]).val>>
        /\ Formatted =>
              text = <<LetterWritten, " ">> \o F32ToString(F32FromStr(toks[2]).val)

C16_Witness ==
    /\ pc = "formatted" /\ Spaced
    /\ toks = << <<"h">>, <<"3", ".", "5">> >>
    /\ parsed.val.movement = <<Num(FALSE, 35, -1), Zero>>
    /\ text = <<"h", " ", "3", ".", "5">>

\* the letter of the kind of a command, and the text after the letter and
\* the space of a formatted command
LetterOfKind(n) == CHOOSE u \in KindLetters : KindOfLetter(u) = n
BuiltLetter ==
    IF built.relative THEN ToAsciiLowercase(LetterOfKind(built.command.name))
    ELSE LetterOfKind(built.command.name)
BuiltArgs == SplitWhitespace(SubSeq(builtText, 3, Len(builtText)))

\* C17: every command formats: ClosePath as its letter alone, every other
\* kind as its letter, one space and its arguments separated by single
\* spaces, with nothing after the last one
C17_FormatTotal ==
    bpc = "shown" =>
        IF built.command.name = "ClosePath" THEN builtText = <<BuiltLetter>>
        ELSE /\ builtText = <<BuiltLetter, " ">> \o JoinWith(BuiltArgs, <<" ">>)
             /\ Len(BuiltArgs) = Len(ArgClasses(LetterOfKind(built.command.name)))
             /\ \A i \in DOMAIN BuiltArgs :
                   CanonicalToken(ArgClasses(LetterOfKind(built.command.name))[i],
                                  BuiltArgs[i])

C17_Witness ==
    /\ bpc = "shown"
    /\ built = PathCommand(TRUE, <<Num(TRUE, 35, -1), Zero>>, Kind("ClosePath", <<>>, <<>>, <<>>))
    /\ builtText = <<"z">>

\* an M, L or T text whose pair is written as two number tokens ("M 1 8"),
\* and the same pair written with a comma ("M 1,8")
SpacedPair ==
    /\ Spaced /\ toks[1] \in LetterTokens /\ UpperLetter \in {"M", "L", "T"}
    /\ Len(toks) = 3
    /\ ~HasComma(toks[2]) /\ F32FromStr(toks[2]).ok
    /\ ~HasComma(toks[3]) /\ F32FromStr(toks[3]).ok
CommaText == toks[1] \o <<" ">> \o toks[2] \o <<",">> \o toks[3]
CommaPair ==
    /\ Spaced /\ toks[1] \in LetterTokens /\ UpperLetter \in {"M", "L", "T"}
    /\ Len(toks) = 2 /\ HasComma(toks[2])
    /\ F32FromStr(Before(toks[2], {","})).ok /\ F32FromStr(After(toks[2], {","})).ok

\* C19 as stated for both notations: the pair written as two tokens parses,
\* to the command of the pair written with a comma
C19_EitherNotation ==
    (Called /\ SpacedPair) =>
        /\ parsed.ok
        /\ parsed.val = PathCommand_from_str(CommaText).val

\* C19: a pair is written with a comma: the comma form parses to the command
\* of the two numbers, and the pair written as two tokens fails with a parse
\* error
C19_CommaNotation ==
    /\ (Called /\ CommaPair) =>
          /\ parsed.ok
          /\ parsed.val.movement = << F32FromStr(Before(toks[2], {","})).val,
                                      F32FromStr(After(toks[2], {","})).val >>
    /\ (Called /\ SpacedPair) =>
          /\ PathCommand_from_str(CommaText).ok
          /\ IsParseError(parsed)
          /\ parsed.err = NotATuple

C19_Witness ==
    /\ pc = "parsed"
    /\ str = <<"M", " ", "1", " ", "8">>
    /\ parsed.err = NotATuple

\* s from its first alphabetic character on, and whether s has text before it
FromFirstLetter(s) == SubSeq(s, LetterPositions(s)[1], Len(s))
HasLead(s) == LetterPositions(s) # <<>> /\ LetterPositions(s)[1] > 1

\* C20: the text before the first letter of a shape text has no influence:
\* the result is that of the text from its first letter on, and the first
\* command is read from the first letter and the text after it
C20_LeadingDiscarded ==
    (ShapeCalled /\ HasLead(shapeStr)) =>
        /\ shape = PathShape_from_str(FromFirstLetter(shapeStr))
        /\ shape.ok =>
              shape.val.elements[1] = PathCommand_from_str(GroupTexts(shapeStr)[1]).val

C20_Witness ==
    /\ spc = "parsed"
    /\ shapeStr = <<"9", " ", "9", "\n", "H", " ", "1", "0", ".">>
    /\ shape.ok
    /\ shape.val.elements = <<horizontal_line_to(Num(FALSE, 1, 1))>>

\* the whitespace-delimited tokens of the text handed to PathCommand::from_str
Tokens == SplitWhitespace(str)

\* C21: a text whose first token is longer than one character fails with a
\* parse error and gives no command, also when that token starts with the
\* letter of a kind ("M1,1", "MM 1,1")
C21_LetterTokenLength ==
    (Called /\ Tokens # <<>> /\ Len(Tokens[1]) > 1) =>
        IsParseError(parsed) /\ parsed.val = NoCommand

C21_Witness ==
    /\ pc = "parsed"
    /\ str = <<"M", "1", ",", "1">>
    /\ Tokens[1][1] \in KindLetters
    /\ IsParseError(parsed)

\* the letter token is the letter of a kind, and the classes of the argument
\* tokens that kind takes
OneLetter ==
    Tokens # <<>> /\ Len(Tokens[1]) = 1 /\ ToAsciiUppercase(Tokens[1][1]) \in KindLetters
Required == ArgClasses(ToAsciiUppercase(Tokens[1][1]))
AllPresent == OneLetter /\ Len(Tokens) - 1 >= Len(Required)
\* the order in which from_str converts the argument tokens of a kind: the
\* endpoint first
EvalOrder(u) ==
    CASE u = "C" -> <<3, 1, 2>>
      [] u \in {"S", "Q"} -> <<2, 1>>
      [] u = "A" -> <<6, 1, 2, 3, 4, 5>>
      [] u = "Z" -> <<>>
      [] OTHER -> <<1>>
\* the token converts to a value of its class
WellFormed(class, tok) ==
    CASE class = "tuple" -> tuple_from_str(tok).ok
      [] class = "scalar" -> F32FromStr(tok).ok
      [] class = "flag" -> I8FromStr(tok).ok
\* the argument converted first among those that do not convert, 0 if all do
FirstMalformed ==
    LET bad == SelectSeq(EvalOrder(ToAsciiUppercase(Tokens[1][1])),
                         LAMBDA i : ~WellFormed(Required[i], Tokens[i + 1]))
    IN  IF bad = <<>> THEN 0 ELSE bad[1]
\* argument i is the only one that does not convert
OnlyMalformed(i) ==
    \A j \in DOMAIN Required : (j # i) = WellFormed(Required[j], Tokens[j + 1])
\* every failure is a ParseError; the message is "Not a command." for a text
\* without tokens, a letter token longer than one character or a letter of
\* no kind, and "Not enough arguments." for an absent argument token
VariantAndMessages ==
    /\ (Called /\ ~parsed.ok) => parsed.err.variant = "ParseError"
    /\ (ShapeCalled /\ ~shape.ok) => shape.err.variant = "ParseError"
    /\ (Called /\ ~OneLetter) =>
          ~parsed.ok /\ parsed.err = ParseError("Not a command.")
    /\ (Called /\ OneLetter /\ ~AllPresent) =>
          ~parsed.ok /\ parsed.err = ParseError("Not enough arguments.")

\* C22 as stated: the messages above, and "Not a tuple." whenever a tuple
\* token without a comma is what is wrong with the text
C22_MessagePerCause ==
    /\ VariantAndMessages
    /\ (Called /\ AllPresent) =>
          \A i \in DOMAIN Required :
              (Required[i] = "tuple" /\ ~HasComma(Tokens[i + 1]) /\ OnlyMalformed(i)) =>
                  ~parsed.ok /\ parsed.err = ParseError("Not a tuple.")

\* C22: the messages above; a tuple token without a comma, when it is the
\* first argument that fails to convert, gives "Not a tuple." if the token is
\* a floating-point literal, and the message of the float conversion if not
C22_ErrorMessages ==
    /\ VariantAndMessages
    /\ (Called /\ AllPresent /\ FirstMalformed # 0) =>
          LET tok == Tokens[FirstMalformed + 1]
          IN  (Required[FirstMalformed] = "tuple" /\ ~HasComma(tok)) =>
                  /\ ~parsed.ok
                  /\ parsed.err = IF F32FromStr(tok).ok THEN ParseError("Not a tuple.")
                                  ELSE ParseError("invalid float literal")

C22_Witness ==
    /\ pc = "parsed"
    /\ str = <<"M", " ", "x">>
    /\ parsed.err = ParseError("invalid float literal")

\* the token holds a number that is no literal: a scalar or a tuple component
\* that is no float (the empty component of "1," included), a flag that is no
\* integer; and the error of the conversion that rejects it
MalformedNumber(class, tok) ==
    CASE class = "scalar" -> ~F32FromStr(tok).ok
      [] class = "flag" -> ~IsInteger(tok)
      [] class = "tuple" ->
            \/ ~F32FromStr(SplitComma(tok)[1]).ok
            \/ Len(SplitComma(tok)) > 1 /\ ~F32FromStr(SplitComma(tok)[2]).ok
ConversionError(class, tok) ==
    CASE class = "scalar" -> F32FromStr(tok).err
      [] class = "flag" -> I8FromStr(tok).err
      [] class = "tuple" ->
            IF ~F32FromStr(SplitComma(tok)[1]).ok THEN F32FromStr(SplitComma(tok)[1]).err
            ELSE F32FromStr(SplitComma(tok)[2]).err
\* the messages of ParseFloatError and of ParseIntError for a text that is
\* no number
ConversionMessages ==
    { "cannot parse float from empty string", "invalid float literal",
      "cannot parse integer from empty string", "invalid digit found in string" }

\* C23: when all argument tokens of the kind are there and the first one that
\* fails to convert holds a malformed number, the call returns
\* Err(ParseError) with the message of that conversion, and no command
C23_MalformedNumber ==
    (Called /\ AllPresent /\ FirstMalformed # 0) =>
        LET class == Required[FirstMalformed]
            tok == Tokens[FirstMalformed + 1]
        IN  MalformedNumber(class, tok) =>
                /\ IsParseError(parsed)
                /\ parsed.val = NoCommand
                /\ parsed.err = ConversionError(class, tok)
                /\ parsed.err.msg \in ConversionMessages

C23_Witness ==
    /\ pc = "parsed"
    /\ Tokens = << <<"A">>, <<"1">>, <<"2">>, <<"3", ".", "5">>, <<"1", ".", "0">>,
                   <<"1">>, <<"1", ",", "1">> >>
    /\ parsed.err = ParseError("invalid digit found in string")
    /\ parsed.val = NoCommand

\* the error of parse::<i8> for an integer token outside -128..127
OverflowError(tok) ==
    IF IntegerValue(tok) > 127
    THEN ParseError("number too large to fit in target type")
    ELSE ParseError("number too small to fit in target type")

\* C24: in an A text whose other arguments are well formed, integer flag
\* tokens within -128..127 are all accepted, each flag true exactly when its
\* token is not 0; a flag token outside that range makes the call fail with
\* the overflow error of the first such flag, and gives no command
C24_ArcFlagRange ==
    (Called /\ ArcWithIntegerFlags) =>
        IF InI8(toks[5]) /\ InI8(toks[6])
        THEN /\ parsed.ok
             /\ parsed.val.command.name = "EllipticalArcCurve"
             /\ parsed.val.command.flags[1] = (IntegerValue(toks[5]) # 0)
             /\ parsed.val.command.flags[2] = (IntegerValue(toks[6]) # 0)
        ELSE /\ IsParseError(parsed)
             /\ parsed.val = NoCommand
             /\ parsed.err = OverflowError(IF InI8(toks[5]) THEN toks[6] ELSE toks[5])

C24_Witness ==
    /\ pc = "parsed" /\ ArcWithIntegerFlags
    /\ toks[5] = <<"-", "1", "2", "8">>
    /\ toks[6] = <<"1", "2", "8">>
    /\ parsed.err = ParseError("number too large to fit in target type")

\* the tokens of a text cut after the last argument its kind takes, the
\* number of tokens a letter's kind takes, and the text of a token group
Truncated == SubSeq(Tokens, 1, 1 + Len(Required))
Takes(c) ==
    IF ToAsciiUppercase(c) \in KindLetters THEN Len(ArgClasses(ToAsciiUppercase(c)))
    ELSE 0
TruncatedGroup(group) ==
    JoinWith(SubSeq(SplitWhitespace(group), 1, 1 + Takes(group[1])), <<" ">>)

\* C26: a command text with more tokens than its kind takes gives the result
\* of the text cut after the last token the kind takes, a command when those
\* tokens are well formed, whatever the surplus tokens are; and each command
\* of a parsed shape is read from its letter and the first tokens after it
C26_SurplusIgnored ==
    /\ (Called /\ OneLetter /\ Len(Tokens) - 1 > Len(Required)) =>
          /\ parsed = PathCommand_from_str(JoinWith(Truncated, <<" ">>))
          /\ FirstMalformed = 0 => parsed.ok
    /\ (ShapeCalled /\ shape.ok) =>
          LET texts == GroupTexts(shapeStr)
          IN  \A k \in DOMAIN texts :
                  shape.val.elements[k] = PathCommand_from_str(TruncatedGroup(texts[k])).val

C26_Witness ==
    /\ pc = "parsed" /\ parsed.ok
    /\ str = <<"M", " ", "1", ",", "1", " ", "9", ",", "9">>
    /\ parsed.val = move_to(<<Num(FALSE, 1, 0), Num(FALSE, 1, 0)>>)

\* C25: the shape of PathShape::new() has no commands, and after every
\* with_commands call the shape holds exactly the list given to that call,
\* in its order, whatever it held before and whatever the list is
C25_ShapeConstruction ==
    /\ mpc = "new" => made.elements = <<>>
    /\ mpc \in {"with", "shown", "reparsed"} =>
          /\ Len(made.elements) = Len(given)
          /\ \A i \in DOMAIN given : made.elements[i] = given[i]

C25_Witness ==
    /\ mpc = "with"
    /\ Len(given) = 2
    /\ given[1].command.name = "ClosePath" /\ given[1].relative
    /\ given[2].command.name = "MoveTo"
    /\ made.elements = given

\* C27: the text of a shape built from constructor calls with finite numbers
\* parses, to a shape equal (PartialEq) to the one formatted, command by
\* command; so does the empty text of the empty shape
C27_ShapeRoundTrip ==
    mpc = "reparsed" =>
        /\ remade.ok
        /\ Len(remade.val.elements) = Len(made.elements)
        /\ PathShapeEq(remade.val, made)

C27_Witness ==
    /\ mpc = "reparsed"
    /\ Len(made.elements) = 2
    /\ made.elements[1].command.name = "EllipticalArcCurve" /\ made.elements[1].relative
    /\ made.elements[2].command.name = "HorizontalLineTo"
    /\ \E i \in DOMAIN madeText : madeText[i] = "\n"
    /\ remade.ok /\ remade.val = made

\* the value of the last with_attribute call for a key, and the keys set
Last(seq) == seq[Len(seq)]
CallsFor(k) == SelectSeq(log, LAMBDA c : c[1] = k)
KeysSet == {log[i][1] : i \in DOMAIN log}

\* C28: whatever with_attribute calls were made, the map of attributes()
\* has d with the text of the shape as its value, and every other key that
\* was set with the value of the last call for it, and no other key; the
\* stored map holds what the calls set, d included; and no with_attribute or
\* attributes call changes the shape or, for attributes, the stored map
C28_PathAttributes ==
    /\ [](mpc = "read" =>
            /\ DOMAIN attrs = KeysSet \cup {<<"d">>}
            /\ attrs[<<"d">>] = PathShape_to_string(made)
            /\ \A k \in KeysSet \ {<<"d">>} : attrs[k] = Last(CallsFor(k))[2]
            /\ DOMAIN elem.attributes = KeysSet
            /\ \A k \in KeysSet : elem.attributes[k] = Last(CallsFor(k))[2]
            /\ elem.shape = made)
    /\ [][(mpc \in {"path", "read"} => elem'.shape = elem.shape)
          /\ (mpc = "path" /\ mpc' = "read" => elem' = elem)]_vars

C28_Witness ==
    /\ mpc = "read"
    /\ log = << <<<<"d">>, <<"r", "e", "d">>>>, <<<<"f", "i", "l", "l">>, <<"r", "e", "d">>>> >>
    /\ Len(made.elements) = 1
    /\ attrs[<<"d">>] = PathShape_to_string(made)
    /\ elem.attributes[<<"d">>] = <<"r", "e", "d">>

\* C29: the key of a shape is d and its value is its text; from_key_value
\* with a key other than d or D returns Err(TODO) and does not parse the
\* value (nothing is printed), and with d or D returns what
\* PathShape::from_str returns for the value, a parse error included
C29_ShapeAttribute ==
    /\ mpc = "attribute" =>
          /\ attr[1] = <<"d">>
          /\ attr[2] = PathShape_to_string(made)
    /\ mpc = "from key value" =>
          IF kv[1] \in {<<"d">>, <<"D">>}
          THEN /\ fromKv = PathShape_from_str(kv[2])
               /\ fromKv.err.variant # "TODO"
               /\ Len(stdout) = 1
          ELSE /\ ~fromKv.ok
               /\ fromKv.err.variant = "TODO"
               /\ fromKv.val = NoShape
               /\ stdout = <<>>

C29_Witness ==
    /\ mpc = "from key value"
    /\ kv = << <<"D">>, <<"X", " ", "1", ",", "1">> >>
    /\ ~fromKv.ok
    /\ fromKv.err = ParseError("Not a command.")

\* a relative() call has just been made on the last command of the Vec
RelativeCalled == mpc \in {"constructed", "relative"} /\ mpc' \in {"relative", "relative twice"}

\* C30: the command a constructor returns is not relative; relative() makes
\* it relative and leaves its movement, its kind and the kind's payload as
\* they are, a second relative() changes nothing, and no step of a caller
\* takes a command that is relative back to not relative
C30_RelativeFlag ==
    /\ [](/\ mpc = "constructed" => ~Last(given).relative
          /\ mpc \in {"relative", "relative twice"} => Last(given).relative)
    /\ [][/\ RelativeCalled =>
                /\ Len(given') = Len(given)
                /\ Last(given').relative
                /\ Last(given').movement = Last(given).movement
                /\ Last(given').command = Last(given).command
                /\ \A i \in 1..(Len(given) - 1) : given'[i] = given[i]
          /\ (mpc = "relative" /\ mpc' = "relative twice") => given' = given
          /\ (mpc' # "constructed" /\ Len(given') = Len(given)) =>
                \A i \in DOMAIN given : given[i].relative => given'[i].relative
          /\ (mpc # "with" /\ mpc' = "with") =>
                \A i \in DOMAIN given : made'.elements[i].relative = given[i].relative]_vars

C30_Witness ==
    /\ mpc = "relative twice"
    /\ Len(given) = 2
    /\ given[1].command.name = "MoveTo" /\ ~given[1].relative
    /\ given[2].command.name = "EllipticalArcCurve" /\ given[2].relative
    /\ given[2].command.flags = <<TRUE, FALSE>>

===========================================================================
